---------------------------- MODULE Spec2Model ----------------------------
(***************************************************************************)
(* Model of cardio_audio_sleep:                                            *)
(*   - utils/async_timings.py : generate_async_timings                     *)
(*   - config/config.py       : load_config                                *)
(*                                                                         *)
(* Timings are modelled as integers (exact arithmetic).  A percentile is   *)
(* carried multiplied by 100 so that numpy's linear interpolation between  *)
(* order statistics stays in the integers.  Arrays live in a heap of       *)
(* objects addressed by references, so that aliasing between the argument  *)
(* and the returned array is observable.  The global numpy random state is *)
(* a seed-determined stream of raw draws which is revealed lazily: a draw  *)
(* at a position never read before is arbitrary, a draw at a position read *)
(* before (after re-seeding) repeats the recorded value.                   *)
(***************************************************************************)
EXTENDS Integers, Sequences, FiniteSets, TLC

VARIABLES
    pc,          \* position inside generate_async_timings
    exc,         \* exception raised by the call ("" when none)
    heap,        \* heap[r] = contents of the array object with reference r
    input,       \* contents of sequence_timings when the caller built it
    seqType,     \* python type of the sequence_timings argument
    percType,    \* python type of the perc argument
    perc,        \* value of the perc argument (integer percent)
    n,           \* local n
    diff,        \* local diff (reference, 0 = unbound)
    mask,        \* local mask (sequence of indices into diff)
    masked,      \* TRUE once the percentiles and the mask are computed
    delays,      \* local delays (reference, 0 = unbound)
    timings,     \* local timings (reference, 0 = unbound)
    result,      \* returned reference (0 = nothing returned)
    rngStream,   \* raw draws of the seeded global random state revealed so far
    rngPos,      \* number of raw draws consumed since the last seeding
    call,        \* 1 = first call, 2 = repeated call after re-seeding
    prev,        \* outcome of the first call, recorded when the call is repeated
    cpc,         \* position inside load_config
    cexc,        \* exception raised by load_config ("" when none)
    ini,         \* contents of config.ini: section -> option -> literal
    conf,        \* the section dictionaries built by load_config
    config       \* value returned by load_config

tvars == <<pc, exc, heap, input, seqType, percType, perc, n, diff, mask, masked,
           delays, timings, result, rngStream, rngPos, call, prev>>
cvars == <<cpc, cexc, ini, conf, config>>
vars == <<pc, exc, heap, input, seqType, percType, perc, n, diff, mask, masked,
          delays, timings, result, rngStream, rngPos, call, prev,
          cpc, cexc, ini, conf, config>>

---------------------------------------------------------------------------
(* Bounds of the model *)

MaxLen == 4      \* longest sequence_timings
MaxT == 3        \* largest timing value

(* Arguments the caller may pass: the recorded timings of a block, in
   recording order (equal neighbours allowed) or in reverse order (negative
   intervals) *)
Timings == 0..MaxT
Monotone(s) ==
    \/ \A i \in 1..(Len(s) - 1) : s[i] <= s[i + 1]
    \/ \A i \in 1..(Len(s) - 1) : s[i] >= s[i + 1]
TimingSequences == {s \in UNION {[1..k -> Timings] : k \in 0..MaxLen} : Monotone(s)}
Percs == {-1, 0, 10, 49, 50}
SeqTypes == {"list", "dict"}
PercTypes == {"numeric", "str"}

---------------------------------------------------------------------------
(* Helpers on sequences *)

RECURSIVE Insert(_, _)
Insert(x, s) ==
    IF s = <<>> THEN <<x>>
    ELSE IF x <= Head(s) THEN <<x>> \o s
    ELSE <<Head(s)>> \o Insert(x, Tail(s))

RECURSIVE Sorted(_)
Sorted(s) == IF s = <<>> THEN <<>> ELSE Insert(Head(s), Sorted(Tail(s)))

Range(s) == {s[i] : i \in DOMAIN s}

\* _check_type(item, types, name): the item is an instance of one of the types
CheckType(type, types) == type \in types

\* the domain test on perc of generate_async_timings
PercRejectedOffByOne(p) == p < 0 \/ 50 < p
PercRejected(p) == p < 0 \/ 50 <= p

\* np.diff(a): the consecutive differences, empty for fewer than 2 elements
NpDiff(a) == [i \in 1..(IF Len(a) = 0 THEN 0 ELSE Len(a) - 1) |-> a[i + 1] - a[i]]

\* np.percentile(a, q) with the default linear interpolation, times 100.
\* The virtual index is q*(m-1)/100; its integer part selects the lower
\* order statistic and its fractional part interpolates towards the next.
\* An empty array has percentile nan.
Percentile(a, q) ==
    IF Len(a) = 0 THEN [nan |-> TRUE, v |-> 0]
    ELSE LET s == Sorted(a)
             num == q * (Len(a) - 1)
             i == num \div 100
             r == num % 100
         IN  [nan |-> FALSE,
              v |-> IF r = 0 THEN 100 * s[i + 1]
                    ELSE 100 * s[i + 1] + r * (s[i + 2] - s[i + 1])]

\* the element test of the mask: percentile(diff, perc) <= x <= percentile(diff, 100 - perc)
\* (a comparison with nan is false)
InBandStrict(x, lo, hi) == ~lo.nan /\ ~hi.nan /\ lo.v < 100 * x /\ 100 * x < hi.v
InBandLowerStrict(x, lo, hi) == ~lo.nan /\ ~hi.nan /\ lo.v < 100 * x /\ 100 * x <= hi.v
InBand(x, lo, hi) == ~lo.nan /\ ~hi.nan /\ lo.v <= 100 * x /\ 100 * x <= hi.v

\* np.where(cond): the indices where the condition holds, in increasing order
RECURSIVE WhereFrom(_, _, _, _)
WhereFrom(d, lo, hi, i) ==
    IF i > Len(d) THEN <<>>
    ELSE (IF InBand(d[i], lo, hi) THEN <<i>> ELSE <<>>) \o WhereFrom(d, lo, hi, i + 1)

NpWhere(d, p) == WhereFrom(d, Percentile(d, p), Percentile(d, 100 - p), 1)

\* diff[mask]: fancy indexing, a new array
Take(d, m) == [k \in 1..Len(m) |-> d[m[k]]]

\* the population np.random.choice draws from
PopulationUntrimmed(d, m) == d
Population(d, m) == Take(d, m)

\* assert diff[mask].size != 0
AssertDisabled(pool) == TRUE
AssertHolds(pool) == Len(pool) # 0

\* The raw draws (each in 0..size-1) np.random.choice may obtain from the
\* global random state for count samples, given the stream revealed so far and
\* the number of draws already consumed since seeding: a position already
\* revealed repeats its value, the others are arbitrary.
RandomDrawsUnseeded(stream, pos, count, size) == [1..count -> 0..(size - 1)]
RandomDraws(stream, pos, count, size) ==
    LET known == IF Len(stream) - pos >= count THEN count
                 ELSE IF Len(stream) - pos <= 0 THEN 0
                 ELSE Len(stream) - pos
    IN  {[k \in 1..count |-> IF k <= known THEN stream[pos + k] % size ELSE fresh[k]] :
            fresh \in [(known + 1)..count -> 0..(size - 1)]}

\* the stream after the draws dr were read from position pos + 1 on
Reveal(stream, pos, dr) ==
    [k \in 1..(IF pos + Len(dr) > Len(stream) THEN pos + Len(dr) ELSE Len(stream)) |->
        IF k <= Len(stream) THEN stream[k] ELSE dr[k - pos]]

\* timings = np.zeros((n,)): a new array object of n zeros
ZerosInPlace(h, size) ==
    [heap |-> [h EXCEPT ![1] = [k \in 1..Len(h[1]) |-> IF k = 1 THEN 0 ELSE h[1][k]]],
     ref |-> 1]
Zeros(h, size) == [heap |-> Append(h, [k \in 1..size |-> 0]), ref |-> Len(h) + 1]

\* one iteration of the loop: timings[k + 1] = timings[k] + delay (0-based k)
StepNotCumulative(t, k, delay) == [t EXCEPT ![k + 2] = delay]
StepShifted(t, k, delay) == [t EXCEPT ![k + 1] = t[k + 1] + delay]
Step(t, k, delay) == [t EXCEPT ![k + 2] = t[k + 1] + delay]

\* for k, delay in enumerate(delays): ...
RECURSIVE Loop(_, _, _)
Loop(t, d, k) == IF k >= Len(d) THEN t ELSE Loop(Step(t, k, d[k + 1]), d, k + 1)

---------------------------------------------------------------------------
(* generate_async_timings *)

Init ==
    /\ pc = "start"
    /\ exc = ""
    /\ input \in TimingSequences
    /\ heap = <<input>>
    /\ seqType \in SeqTypes
    /\ percType \in PercTypes
    /\ perc \in Percs
    /\ n = 0
    /\ diff = 0
    /\ mask = <<>>
    /\ masked = FALSE
    /\ delays = 0
    /\ timings = 0
    /\ result = 0
    /\ rngStream = <<>>
    /\ rngPos = 0
    /\ call = 1
    /\ prev = [pc |-> "", exc |-> "", value |-> <<>>]
    /\ cpc = "idle"
    /\ cexc = ""
    /\ ini = <<>>
    /\ conf = <<>>
    /\ config = <<>>

\* raise: the call ends with exception e
Raise(e) == pc' = "raised" /\ exc' = e

\* lines 32-41: the two _check_type calls (TypeError), then the range test on
\* perc (ValueError)
CheckArguments ==
    /\ pc = "start"
    /\ IF ~(/\ CheckType(seqType, {"list", "tuple", "ndarray"})
            /\ CheckType(percType, {"numeric"}))
       THEN Raise("TypeError")
       ELSE IF PercRejected(perc)
       THEN Raise("ValueError")
       ELSE pc' = "checked" /\ exc' = exc
    /\ UNCHANGED <<heap, input, seqType, percType, perc, n, diff, mask, masked,
                   delays, timings, result, rngStream, rngPos, call, prev>>
    /\ UNCHANGED cvars

\* lines 44-50:
\*   n = len(sequence_timings); diff = np.diff(sequence_timings)
\*   mask = np.where((np.percentile(diff, perc) <= diff)
\*                   & (diff <= np.percentile(diff, 100 - perc)))
\*   assert diff[mask].size != 0
Trim ==
    /\ pc = "checked"
    /\ LET d == NpDiff(heap[1])
           w == NpWhere(d, perc)
       IN  /\ n' = Len(heap[1])
           /\ heap' = Append(heap, d)
           /\ diff' = Len(heap) + 1
           /\ mask' = w
           /\ masked' = TRUE
           /\ IF AssertHolds(Take(d, w))
              THEN pc' = "trimmed" /\ exc' = exc
              ELSE Raise("AssertionError")
    /\ UNCHANGED <<input, seqType, percType, perc,
                   delays, timings, result, rngStream, rngPos, call, prev>>
    /\ UNCHANGED cvars

\* lines 53-57:
\*   delays = np.random.choice(diff[mask], size=n - 1, replace=True)
\*   timings = np.zeros((n,)); the loop over the delays; return timings
\* (numpy raises ValueError for a negative size and for an empty population
\* unless no sample is taken)
Draw ==
    /\ pc = "trimmed"
    /\ LET pool == Population(heap[diff], mask)
           count == n - 1
       IN  IF count < 0 \/ (Len(pool) = 0 /\ count # 0)
           THEN /\ Raise("ValueError")
                /\ UNCHANGED <<heap, delays, timings, result, rngStream, rngPos>>
           ELSE \E dr \in RandomDraws(rngStream, rngPos, count, Len(pool)) :
                    LET chosen == [k \in 1..count |-> pool[dr[k] + 1]]
                        z == Zeros(Append(heap, chosen), n)
                    IN  /\ heap' = [z.heap EXCEPT
                                       ![z.ref] = Loop(z.heap[z.ref], chosen, 0)]
                        /\ delays' = Len(heap) + 1
                        /\ timings' = z.ref
                        /\ result' = z.ref
                        /\ rngStream' = Reveal(rngStream, rngPos, dr)
                        /\ rngPos' = rngPos + count
                        /\ pc' = "done"
                        /\ exc' = exc
    /\ UNCHANGED <<input, seqType, percType, perc, n, diff, mask, masked, call, prev>>
    /\ UNCHANGED cvars

\* The caller re-seeds the global random state with the same seed and calls
\* the function again with the same argument object and the same perc.  The
\* objects of the finished call other than the argument are released.
CallAgain ==
    /\ call = 1
    /\ pc \in {"done", "raised"}
    /\ prev' = [pc |-> pc, exc |-> exc,
                value |-> IF result = 0 THEN <<>> ELSE heap[result]]
    /\ call' = 2
    /\ heap' = <<heap[1]>>
    /\ rngPos' = 0
    /\ pc' = "start"
    /\ exc' = ""
    /\ n' = 0
    /\ diff' = 0
    /\ mask' = <<>>
    /\ masked' = FALSE
    /\ delays' = 0
    /\ timings' = 0
    /\ result' = 0
    /\ UNCHANGED <<input, seqType, percType, perc, rngStream>>
    /\ UNCHANGED cvars

Next ==
    \/ CheckArguments
    \/ Trim
    \/ Draw
    \/ CallAgain

Spec == Init /\ [][Next]_vars

---------------------------------------------------------------------------
(* load_config *)

\* Values of config.ini are strings, modelled as sequences of characters.
Digits == <<"0", "1", "2", "3", "4", "5", "6", "7", "8", "9">>
IsDigit(c) == \E i \in DOMAIN Digits : Digits[i] = c
DigitValue(c) == (CHOOSE i \in DOMAIN Digits : Digits[i] = c) - 1

\* the number written by a string of digits
RECURSIVE DigitsValue(_)
DigitsValue(s) ==
    IF s = <<>> THEN 0
    ELSE 10 * DigitsValue(SubSeq(s, 1, Len(s) - 1)) + DigitValue(s[Len(s)])

\* a float with the value num / 10^scale, in lowest terms of the scale
RECURSIVE Normal(_, _)
Normal(num, scale) ==
    IF scale > 0 /\ num % 10 = 0 THEN Normal(num \div 10, scale - 1)
    ELSE [type |-> "float", num |-> num, scale |-> scale]

\* int(value): a non-empty string of digits, anything else is a ValueError
PyInt(s) ==
    IF s # <<>> /\ \A i \in DOMAIN s : IsDigit(s[i])
    THEN [ok |-> TRUE, value |-> [type |-> "int", num |-> DigitsValue(s), scale |-> 0]]
    ELSE [ok |-> FALSE, value |-> [type |-> "none", num |-> 0, scale |-> 0]]

\* float(value), as called by getfloat: digits with at most one decimal point
\* and at least one digit, anything else is a ValueError
PyFloat(s) ==
    LET points == {i \in DOMAIN s : s[i] = "."}
        digits == SelectSeq(s, IsDigit)
    IN  IF /\ Cardinality(points) <= 1
           /\ Len(digits) >= 1
           /\ \A i \in DOMAIN s : IsDigit(s[i]) \/ s[i] = "."
        THEN [ok |-> TRUE,
              value |-> Normal(DigitsValue(digits),
                               IF points = {} THEN 0
                               ELSE Len(s) - (CHOOSE i \in points : TRUE))]
        ELSE [ok |-> FALSE, value |-> [type |-> "none", num |-> 0, scale |-> 0]]

\* the sections load_config requires and the options it asserts
Keys == <<"block", "baseline", "synchronous", "isochronous", "asynchronous">>
StimuliSections == {"synchronous", "isochronous", "asynchronous"}
StimuliOptions == {"n_stimuli", "n_omissions", "edge_perc"}
RequiredOptions(sec) ==
    IF sec = "block" THEN {"inter_block"}
    ELSE IF sec = "baseline" THEN {"duration"}
    ELSE StimuliOptions

\* the config.ini files considered: every edge_perc is written with one of
\* EdgeLiterals, every other option with one literal of IntLiterals; one
\* section or one edge_perc option may be missing
EdgeLiterals == {<<"1", "0">>, <<"1", "0", ".", "5">>, <<"1", "0", ".", "0">>, <<"x">>}
IntLiterals == {<<"2", "5">>, <<"2", ".", "5">>}
IniFile(e, v, nosec, noopt) ==
    [sec \in Range(Keys) \ {nosec} |->
        [opt \in RequiredOptions(sec) \ (IF sec = noopt THEN {"edge_perc"} ELSE {}) |->
            IF opt = "edge_perc" THEN e[sec] ELSE v]]
IniFiles ==
    {IniFile(e, v, nosec, noopt) :
        e \in [StimuliSections -> EdgeLiterals], v \in IntLiterals,
        nosec \in {"", "asynchronous"}, noopt \in {"", "isochronous"}}

InitCfg ==
    /\ pc = "idle"
    /\ exc = ""
    /\ input = <<>>
    /\ heap = <<input>>
    /\ seqType = "list"
    /\ percType = "numeric"
    /\ perc = 10
    /\ n = 0
    /\ diff = 0
    /\ mask = <<>>
    /\ masked = FALSE
    /\ delays = 0
    /\ timings = 0
    /\ result = 0
    /\ rngStream = <<>>
    /\ rngPos = 0
    /\ call = 1
    /\ prev = [pc |-> "", exc |-> "", value |-> <<>>]
    /\ cpc = "start"
    /\ cexc = ""
    /\ ini \in IniFiles
    /\ conf = <<>>
    /\ config = <<>>

CfgRaise(e) == cpc' = "raised" /\ cexc' = e

\* for key in keys: if not config.has_section(key): raise ValueError
CheckSections ==
    /\ cpc = "start"
    /\ IF \A i \in DOMAIN Keys : Keys[i] \in DOMAIN ini
       THEN cpc' = "sections_ok" /\ cexc' = cexc
       ELSE CfgRaise("ValueError")
    /\ UNCHANGED <<ini, conf, config>>
    /\ UNCHANGED tvars

\* "Convert all to int": the five dictionary comprehensions, int(value) for
\* every option of every section
ConvertToInt ==
    /\ cpc = "sections_ok"
    /\ IF \A i \in DOMAIN Keys : \A opt \in DOMAIN ini[Keys[i]] :
              PyInt(ini[Keys[i]][opt]).ok
       THEN /\ conf' = [sec \in Range(Keys) |->
                           [opt \in DOMAIN ini[sec] |-> PyInt(ini[sec][opt]).value]]
            /\ cpc' = "converted"
            /\ cexc' = cexc
       ELSE /\ CfgRaise("ValueError")
            /\ conf' = conf
    /\ UNCHANGED <<ini, config>>
    /\ UNCHANGED tvars

\* "Check keys": the five assertions
CheckKeys ==
    /\ cpc = "converted"
    /\ IF \A i \in DOMAIN Keys : RequiredOptions(Keys[i]) \subseteq DOMAIN conf[Keys[i]]
       THEN cpc' = "keys_ok" /\ cexc' = cexc
       ELSE CfgRaise("AssertionError")
    /\ UNCHANGED <<ini, conf, config>>
    /\ UNCHANGED tvars

\* "Overwrite edge_perc with float": getfloat for the three sections, then
\* the returned dictionary
OverwriteEdgePerc ==
    /\ cpc = "keys_ok"
    /\ IF \A sec \in StimuliSections : PyFloat(ini[sec]["edge_perc"]).ok
       THEN LET c == [sec \in Range(Keys) |->
                         IF sec \in StimuliSections
                         THEN [conf[sec] EXCEPT
                                  !["edge_perc"] = PyFloat(ini[sec]["edge_perc"]).value]
                         ELSE conf[sec]]
            IN  /\ conf' = c
                /\ config' = [block |-> c["block"], baseline |-> c["baseline"],
                              sync |-> c["synchronous"], iso |-> c["isochronous"],
                              async |-> c["asynchronous"]]
                /\ cpc' = "done"
                /\ cexc' = cexc
       ELSE /\ CfgRaise("ValueError")
            /\ UNCHANGED <<conf, config>>
    /\ UNCHANGED ini
    /\ UNCHANGED tvars

NextCfg ==
    \/ CheckSections
    \/ ConvertToInt
    \/ CheckKeys
    \/ OverwriteEdgePerc

SpecCfg == InitCfg /\ [][NextCfg]_vars

---------------------------------------------------------------------------
(* Properties of generate_async_timings *)

\* the inter-event intervals of the input as the caller built it
IEIs == NpDiff(input)

\* the arguments pass both type checks
TypesOK == seqType \in {"list", "tuple", "ndarray"} /\ percType = "numeric"
PercInDomain == 0 <= perc /\ perc < 50

\* the closed band [percentile(IEIs, perc), percentile(IEIs, 100 - perc)], times 100
Band == [lo |-> Percentile(IEIs, perc).v, hi |-> Percentile(IEIs, 100 - perc).v]
InClosed(x, band) == band.lo <= 100 * x /\ 100 * x <= band.hi

StrictlyIncreasing(s) == \A i \in 1..(Len(s) - 1) : s[i] < s[i + 1]
Count(s, v) == Cardinality({i \in DOMAIN s : s[i] = v})
Returned == heap[result]

\* C1: a returned sequence for an input of length n >= 2 has exactly n
\* elements and its first element is 0.
C1_LengthAndOrigin ==
    (pc = "done" /\ Len(input) >= 2) =>
        /\ result # 0
        /\ Len(Returned) = Len(input)
        /\ Returned[1] = 0
C1_Witness == pc = "done" /\ Len(input) >= 3 /\ perc = 10 /\ Returned[Len(input)] > 0

\* C2: with a numeric perc below 0 or at least 50 the call raises an
\* invalid-argument error (ValueError, or TypeError when sequence_timings has
\* the wrong type) before the differences, the percentiles or any random draw
\* are computed, and nothing is returned.
C2_PercRejectedFirst ==
    (percType = "numeric" /\ (perc < 0 \/ perc >= 50)) =>
        /\ pc \in {"start", "raised"}
        /\ pc = "raised" =>
              exc = (IF seqType \in {"list", "tuple", "ndarray"}
                     THEN "ValueError" ELSE "TypeError")
        /\ diff = 0 /\ ~masked /\ delays = 0 /\ rngStream = <<>> /\ rngPos = 0
        /\ timings = 0 /\ result = 0
C2_Witness == pc = "raised" /\ exc = "ValueError" /\ perc = 50 /\ Len(input) >= 2

C4_StrictlyIncreasing ==
    (pc = "done" /\ StrictlyIncreasing(input)) => StrictlyIncreasing(Returned)
C4_Witness ==
    /\ pc = "done" /\ StrictlyIncreasing(input) /\ Len(input) >= 3
    /\ Cardinality(Range(IEIs)) >= 2
    /\ Returned # input

\* C5: a repeated call with the same arguments, made after re-seeding the
\* random state, ends the way the first call did and returns the same values.
C5_Deterministic ==
    (call = 2 /\ pc \in {"done", "raised"}) =>
        /\ pc = prev.pc
        /\ exc = prev.exc
        /\ pc = "done" => Returned = prev.value
C5_Witness ==
    /\ call = 2 /\ pc = "done"
    /\ Cardinality(Range(Take(heap[diff], mask))) >= 2
    /\ Cardinality(Range(heap[delays])) >= 2

\* C6: when all inter-event intervals equal one value d the retained pool
\* holds only d and the call returns [0, d, 2d, ..., (n-1)d].
C6_ConstantIntervals ==
    (TypesOK /\ PercInDomain /\ Len(input) >= 2 /\ Cardinality(Range(IEIs)) = 1) =>
        LET d == IEIs[1] IN
        /\ masked => Range(Take(heap[diff], mask)) = {d}
        /\ pc # "raised"
        /\ pc = "done" => Returned = [k \in 1..Len(input) |-> (k - 1) * d]
C6_Witness ==
    /\ pc = "done" /\ input = <<0, 1, 2, 3>> /\ perc = 10
    /\ Returned = <<0, 1, 2, 3>>

\* C7: with perc = 0 the retained pool is the full multiset of the n-1
\* inter-event intervals of the input.
C7_ZeroPercKeepsAll ==
    (perc = 0 /\ Len(input) >= 2 /\ masked) =>
        LET pool == Take(heap[diff], mask) IN
        /\ Len(pool) = Len(input) - 1
        /\ \A v \in Range(IEIs) \cup Range(pool) : Count(pool, v) = Count(IEIs, v)
C7_Witness ==
    /\ perc = 0 /\ pc = "trimmed" /\ Len(input) >= 4
    /\ Cardinality(Range(IEIs)) >= 3

\* C9: the argument object keeps its contents during and after every call,
\* and the returned array is an object other than the argument, created by
\* the call.
C9_InputUntouched ==
    /\ heap[1] = input
    /\ pc = "done" => (result # 1 /\ result = Len(heap))
C9_Witness ==
    /\ call = 2 /\ pc = "done" /\ prev.pc = "done"
    /\ Returned # input /\ heap[1] = input

\* C10: every gap between consecutive elements of a returned sequence equals
\* an inter-event interval of the input that lies in the closed band.
C10_GapsFromBand ==
    pc = "done" =>
        LET band == Band
            kept == {IEIs[j] : j \in {i \in DOMAIN IEIs : InClosed(IEIs[i], band)}}
        IN  \A k \in 1..(Len(Returned) - 1) : Returned[k + 1] - Returned[k] \in kept
C10_Witness ==
    /\ pc = "done"
    /\ \E j \in DOMAIN IEIs : ~InClosed(IEIs[j], Band)
    /\ Len(input) >= 4

---------------------------------------------------------------------------
(* Properties of load_config *)

\* config.ini has every section and option, every edge_perc is a float
\* literal and every other value an integer literal
ValidIni ==
    /\ DOMAIN ini = Range(Keys)
    /\ \A sec \in DOMAIN ini :
          /\ DOMAIN ini[sec] = RequiredOptions(sec)
          /\ \A opt \in DOMAIN ini[sec] :
                IF opt = "edge_perc" /\ sec \in StimuliSections
                THEN PyFloat(ini[sec][opt]).ok
                ELSE PyInt(ini[sec][opt]).ok

\* C8: for every such file load_config returns, and in the returned sections
\* sync, iso and async edge_perc is a float and every other field an int.
C8_EdgePercFloat ==
    (cpc \in {"done", "raised"} /\ ValidIni) =>
        /\ cpc = "done"
        /\ \A sec \in {"sync", "iso", "async"} : \A opt \in DOMAIN config[sec] :
              config[sec][opt].type = (IF opt = "edge_perc" THEN "float" ELSE "int")

===========================================================================
